---------------------------- MODULE Spec2Model ----------------------------
(***************************************************************************)
(* Model of app.py: PDF text extraction with ordered fallbacks             *)
(* (PyMuPDF -> pdfminer.six, per-page OCR salvage), the heuristic          *)
(* summarizer, and run(), which writes the two report files.               *)
(*                                                                         *)
(* Text is modelled character by character: a Python str is a TLA+ string, *)
(* s[i] is Ch(s, i), s[a:b] is SubSeq, + is \o.  Every regular expression  *)
(* of the source is spelled out as a scan over character classes.  The     *)
(* alphabet is ASCII; U+00A0 and the other non-ASCII blanks that Python's  *)
(* \s and str.strip() also cover do not occur in the modelled inputs.      *)
(***************************************************************************)
EXTENDS Integers, Sequences, FiniteSets, TLC

----------------------------------------------------------------------------
(* Characters and character classes of Python's re module (str patterns).  *)

Ch(s, i) == SubSeq(s, i, i)

Range(f) == {f[i] : i \in DOMAIN f}

SetMin(S) == CHOOSE x \in S : \A y \in S : x <= y

SetMax(S) == CHOOSE x \in S : \A y \in S : x >= y

UpperLetters == "ABCDEFGHIJKLMNOPQRSTUVWXYZ"

LowerLetters == "abcdefghijklmnopqrstuvwxyz"

Upper == {Ch(UpperLetters, i) : i \in 1..Len(UpperLetters)}

Lower == {Ch(LowerLetters, i) : i \in 1..Len(LowerLetters)}

\* \d
Digit == {"0", "1", "2", "3", "4", "5", "6", "7", "8", "9"}

\* \w
WordChar == Upper \cup Lower \cup Digit \cup {"_"}

\* \s, and the characters str.strip() and str.split() treat as blank
Space == {" ", "\t", "\n", "\r", "\f"}

\* str.lower() on one character
LowerChar == [c \in Upper |-> Ch(LowerLetters, CHOOSE i \in 1..Len(UpperLetters) : Ch(UpperLetters, i) = c)]

IsWordAt(s, i) == i >= 1 /\ i <= Len(s) /\ Ch(s, i) \in WordChar

\* \b between s[i] and s[i+1] (i = 0: before the first character)
WordBoundary(s, i) == IsWordAt(s, i) # IsWordAt(s, i + 1)

\* "".join(f[lo..hi]), by halving: the result of a re.sub that rewrites
\* every character position independently
RECURSIVE JoinRange(_, _, _)
JoinRange(f, lo, hi) ==
    IF lo > hi THEN ""
    ELSE IF lo = hi THEN f[lo]
    ELSE LET mid == (lo + hi) \div 2
         IN  JoinRange(f, lo, mid) \o JoinRange(f, mid + 1, hi)

\* index of the first character at or after i that is not in class C
\* (Len(s) + 1 when there is none)
RECURSIVE SkipClass(_, _, _)
SkipClass(s, C, i) ==
    IF i > Len(s) \/ Ch(s, i) \notin C THEN i ELSE SkipClass(s, C, i + 1)

\* index of the last character at or before i that is not in class C (0 when none)
RECURSIVE SkipClassBack(_, _, _)
SkipClassBack(s, C, i) ==
    IF i < 1 \/ Ch(s, i) \notin C THEN i ELSE SkipClassBack(s, C, i - 1)

\* str.strip()
Strip(s) ==
    LET a == SkipClass(s, Space, 1)
        b == SkipClassBack(s, Space, Len(s))
    IN  IF a > b THEN "" ELSE SubSeq(s, a, b)

\* str.lower()
LowerStr(s) ==
    JoinRange([i \in 1..Len(s) |-> IF Ch(s, i) \in Upper THEN LowerChar[Ch(s, i)] ELSE Ch(s, i)],
              1, Len(s))

\* w occurs in s at position i
OccursAt(s, w, i) == i >= 1 /\ i + Len(w) - 1 <= Len(s) /\ SubSeq(s, i, i + Len(w) - 1) = w

\* re.search(w, s) for a literal w
Contains(s, w) == \E i \in 1..(Len(s) - Len(w) + 1) : OccursAt(s, w, i)

\* re.search(r"\b" + w + r"\b", s) for a literal w
ContainsWord(s, w) ==
    \E i \in 1..(Len(s) - Len(w) + 1) :
        OccursAt(s, w, i) /\ WordBoundary(s, i - 1) /\ WordBoundary(s, i + Len(w) - 1)

\* str.split(sep) for a one-character sep: the pieces between the separators
SepPositions(s, sep) == {i \in 1..Len(s) : Ch(s, i) = sep}

RECURSIVE SplitFrom(_, _, _)
SplitFrom(s, seps, st) ==
    LET later == {i \in seps : i >= st}
    IN  IF later = {} THEN <<SubSeq(s, st, Len(s))>>
        ELSE LET b == SetMin(later)
             IN  <<SubSeq(s, st, b - 1)>> \o SplitFrom(s, seps, b + 1)

SplitOn(s, sep) == SplitFrom(s, SepPositions(s, sep), 1)

\* sep.join(parts)
RECURSIVE JoinWith(_, _)
JoinWith(parts, sep) ==
    IF Len(parts) = 0 THEN ""
    ELSE IF Len(parts) = 1 THEN parts[1]
    ELSE parts[1] \o sep \o JoinWith(Tail(parts), sep)

----------------------------------------------------------------------------
(* Extraction: text cleaning.                                              *)

HEADER_FOOTER_MAX_LINES == 4

\* re.sub(r"\r\n|\r", "\n", text)
NormalizeLineEndings(text) ==
    JoinRange([i \in 1..Len(text) |->
                  IF Ch(text, i) = "\r" THEN "\n"
                  ELSE IF Ch(text, i) = "\n" /\ i > 1 /\ Ch(text, i - 1) = "\r" THEN ""
                  ELSE Ch(text, i)],
              1, Len(text))

\* re.sub(r"[\t ]+", " ", text)
CollapseTabs(text) ==
    JoinRange([i \in 1..Len(text) |->
                  IF Ch(text, i) # "\t" THEN Ch(text, i)
                  ELSE IF i > 1 /\ Ch(text, i - 1) = "\t" THEN ""
                  ELSE " "],
              1, Len(text))

\* re.sub(r"\n{3,}", "\n\n", text)
CollapseBlankLines(text) ==
    JoinRange([i \in 1..Len(text) |->
                  IF Ch(text, i) = "\n" /\ i > 2 /\ Ch(text, i - 1) = "\n" /\ Ch(text, i - 2) = "\n"
                  THEN "" ELSE Ch(text, i)],
              1, Len(text))

_normalize_whitespace(text) ==
    Strip(CollapseBlankLines(CollapseTabs(NormalizeLineEndings(text))))

\* re.search(r"^\s*\d+\s*$", ln)
IsPageNumberLine(ln) ==
    LET a == SkipClass(ln, Space, 1)
        b == SkipClass(ln, Digit, a)
    IN  b > a /\ SkipClass(ln, Space, b) = Len(ln) + 1

HeaderFooterKeywords == {"page", "annual report", "confidential", "draft"}

is_header_footer_line(ln) ==
    \/ IsPageNumberLine(ln)
    \/ \E w \in HeaderFooterKeywords : ContainsWord(LowerStr(ln), w)
    \/ Contains(ln, "http://") \/ Contains(ln, "https://")

\* all(is_header_footer_line(ln) or len(ln) <= 2 for ln in block)
RemoveBlock(block) ==
    \A k \in 1..Len(block) : is_header_footer_line(block[k]) \/ Len(block[k]) <= 2


\* _strip_headers_footers with the length test off by one line
_strip_headers_footers_OffByOne(text) ==
    LET lines == SplitOn(text, "\n")
        n == Len(lines)
    IN  IF n <= HEADER_FOOTER_MAX_LINES * 2 + 1 THEN text
        ELSE LET top == SubSeq(lines, 1, HEADER_FOOTER_MAX_LINES)
                 bottom == SubSeq(lines, n - HEADER_FOOTER_MAX_LINES + 1, n)
                 afterTop == IF RemoveBlock(top)
                             THEN SubSeq(lines, HEADER_FOOTER_MAX_LINES + 1, n)
                             ELSE lines
                 afterBottom == IF RemoveBlock(bottom)
                                THEN SubSeq(afterTop, 1, Len(afterTop) - HEADER_FOOTER_MAX_LINES)
                                ELSE afterTop
             IN  Strip(JoinWith(afterBottom, "\n"))

_strip_headers_footers(text) ==
    LET lines == SplitOn(text, "\n")
        n == Len(lines)
    IN  IF n <= HEADER_FOOTER_MAX_LINES * 2 THEN text
        ELSE LET top == SubSeq(lines, 1, HEADER_FOOTER_MAX_LINES)
                 bottom == SubSeq(lines, n - HEADER_FOOTER_MAX_LINES + 1, n)
                 afterTop == IF RemoveBlock(top)
                             THEN SubSeq(lines, HEADER_FOOTER_MAX_LINES + 1, n)
                             ELSE lines
                 afterBottom == IF RemoveBlock(bottom)
                                THEN SubSeq(afterTop, 1, Len(afterTop) - HEADER_FOOTER_MAX_LINES)
                                ELSE afterTop
             IN  Strip(JoinWith(afterBottom, "\n"))

\* cleaned = _strip_headers_footers(_normalize_whitespace(raw or ""))
CleanPage(raw) == _strip_headers_footers(_normalize_whitespace(raw))

----------------------------------------------------------------------------
(* Heuristic summarizer: segmentation.                                     *)

MinSentenceLen == 30

\* [.!?] of the look-behind
Terminal == {".", "!", "?"}

\* [A-Z(0-9)] of the look-ahead: an upper-case letter, a digit, "(" or ")"
SplitStart == Upper \cup Digit \cup {"(", ")"}

\* re.split(r"(?<=[.!?])\s+(?=[A-Z(0-9)])", text) splits after text[i]
IsSentenceBreak(text, i) ==
    /\ Ch(text, i) \in Terminal
    /\ i < Len(text)
    /\ Ch(text, i + 1) \in Space
    /\ LET e == SkipClass(text, Space, i + 1)
       IN  e <= Len(text) /\ Ch(text, e) \in SplitStart

RECURSIVE PartsFrom(_, _, _)
PartsFrom(text, breaks, st) ==
    LET later == {i \in breaks : i >= st}
    IN  IF later = {} THEN <<SubSeq(text, st, Len(text))>>
        ELSE LET b == SetMin(later)
             IN  <<SubSeq(text, st, b)>> \o PartsFrom(text, breaks, SkipClass(text, Space, b + 1))

\* re.sub(r"\s+", " ", s)
CollapseWhitespace(s) ==
    JoinRange([i \in 1..Len(s) |->
                  IF Ch(s, i) \notin Space THEN Ch(s, i)
                  ELSE IF i > 1 /\ Ch(s, i - 1) \in Space THEN ""
                  ELSE " "],
              1, Len(s))

_split_sentences(text) ==
    LET parts == PartsFrom(text, {i \in 1..Len(text) : IsSentenceBreak(text, i)}, 1)
        cleaned == [k \in 1..Len(parts) |-> Strip(CollapseWhitespace(parts[k]))]
    IN  SelectSeq(cleaned, LAMBDA s : Len(s) >= MinSentenceLen)

----------------------------------------------------------------------------
(* Heuristic summarizer: scoring.  Scores are kept in tenths, so that the  *)
(* weights 1.0, 0.5, 0.3, 0.7, 0.6 and -0.8 are the integers below.        *)

SECTION_PATTERNS ==
    [financials |-> {"revenue", "ebit", "ebitda", "pat", "profit", "loss", "income",
                     "balance sheet", "cash flow", "financial highlight"},
     risks      |-> {"risk", "outlook", "challenge", "headwind", "uncertaint"},
     strategy   |-> {"strategy", "strategic", "priority", "roadmap", "growth", "investment",
                     "innovation", "market", "product", "segment"}]

DomainSignals == {"yoy", "qoq", "guidance", "margin", "dividend", "order book", "backlog",
                  "capex", "opex", "free cash"}

BoilerplateMarkers == {"forward-looking", "statutory", "notes to accounts", "auditor",
                       "secretarial"}

\* len(s.split())
WordCount(s) ==
    Cardinality({i \in 1..Len(s) : Ch(s, i) \notin Space /\ (i = 1 \/ Ch(s, i - 1) \in Space)})

\* r"\b\d[\d,\.]*\b" matched at i: the end of the match (0: no match at i).
\* The run [\d,\.]* is greedy and gives characters back until \b holds.
NumericEnd(s, i) ==
    LET g == SkipClass(s, Digit \cup {",", "."}, i + 1) - 1
        ends == {e \in i..g : WordBoundary(s, e)}
    IN  IF Ch(s, i) \in Digit /\ WordBoundary(s, i - 1) /\ ends # {} THEN SetMax(ends) ELSE 0

\* len(re.findall(r"\b\d[\d,\.]*\b", s)): matches are taken left to right, without overlap
RECURSIVE CountNumerics(_, _, _)
CountNumerics(s, starts, from) ==
    LET later == {i \in starts : i >= from}
    IN  IF later = {} THEN 0
        ELSE 1 + CountNumerics(s, starts, NumericEnd(s, SetMin(later)) + 1)

NumericCount(s) == CountNumerics(s, {i \in 1..Len(s) : NumericEnd(s, i) > 0}, 1)

\* re.search(alternatives, s, re.I)
SearchAny(s, alternatives) == \E w \in alternatives : Contains(LowerStr(s), w)

_score_sentence(sentence) ==
    LET length == WordCount(sentence)
        numerics == NumericCount(sentence)
    IN  (IF 12 <= length /\ length <= 40 THEN 10 ELSE IF length > 8 THEN 5 ELSE 0)
        + (IF 3 * numerics < 30 THEN 3 * numerics ELSE 30)
        + 7 * Cardinality({k \in DOMAIN SECTION_PATTERNS : SearchAny(sentence, SECTION_PATTERNS[k])})
        + (IF SearchAny(sentence, DomainSignals) THEN 6 ELSE 0)
        - (IF SearchAny(sentence, BoilerplateMarkers) THEN 8 ELSE 0)

----------------------------------------------------------------------------
(* Page texts the summarizer is run on.                                    *)

LineRevenue == "Revenue grew 12% to 450 million in 2023."

LineProfit == "Net profit rose 8% to 90 million in 2023."

LineRisk == "The board sees no major risk this year."

LineOutlook == "Our outlook for the year is unchanged."

\* what recognition reads off a scanned page
LineScanned == "Capex was 40 million, up 5% on 2022."

\* a page whose text layer holds under OCR_MIN_CHARS characters
ShortText == "  Scan 7 \n"

\* eight sentences: two pairs of equal score, one negative score
PageFinancials ==
    LineRevenue \o " "
    \o LineProfit \o " "
    \o LineRisk \o "\n"
    \o LineOutlook \o " "
    \o "We opened new offices in three cities. "
    \o LineScanned \o " "
    \o "The auditor signed the annual accounts. "
    \o "Staff numbers were stable at all sites."

\* a rule of dashes (a candidate with no word character), one sentence in two
\* spellings, one sentence of PageFinancials again, and an unfinished last line
PageRepeats ==
    "------------------------------. "
    \o "Totals are shown in the tables below. "
    \o "REVENUE GREW 12% TO 450 MILLION IN 2023! "
    \o LineRevenue \o " "
    \o "Strategy: growth in our core markets and"

\* only fragments under MinSentenceLen characters
PageFragments == "Short note. See item 3.\nThanks."

PageBlank == ""

PageCatalogue == {PageFinancials, PageRepeats, PageFragments, PageBlank}

\* _score_sentence over the sentences of the catalogue pages and of two of them
\* joined (a sentence may run on over a page break), evaluated once
KnownSentences ==
    UNION {Range(_split_sentences(p \o "\n\n" \o q)) : p \in PageCatalogue \cup {""}, q \in PageCatalogue}

ScoreTable == [s \in KnownSentences |-> _score_sentence(s)]

\* _score_sentence(s), read from ScoreTable where it holds s
ScoreOf(s) == IF s \in KnownSentences THEN ScoreTable[s] ELSE _score_sentence(s)

----------------------------------------------------------------------------
(* Heuristic summarizer: selection.                                        *)

ChunkSize == 3

ChunkTop == 7

MaxKeyPoints == 12

SummaryChunks == 3

SummaryTop == 8

\* re.sub(r"\W+", " ", s.lower()).strip()
DedupKey(s) ==
    LET low == LowerStr(s)
    IN  Strip(JoinRange([i \in 1..Len(low) |->
                            IF Ch(low, i) \in WordChar THEN Ch(low, i)
                            ELSE IF i > 1 /\ Ch(low, i - 1) \notin WordChar THEN ""
                            ELSE " "],
                        1, Len(low)))

\* the loop over sentences: keep s when its key is non-empty and not yet seen
RECURSIVE UniqueFrom(_, _, _)
UniqueFrom(sentences, k, seen) ==
    IF k > Len(sentences) THEN <<>>
    ELSE LET key == DedupKey(sentences[k])
         IN  IF key # "" /\ key \notin seen
             THEN <<sentences[k]>> \o UniqueFrom(sentences, k + 1, seen \cup {key})
             ELSE UniqueFrom(sentences, k + 1, seen)

\* scored = [(s, _score_sentence(s)) for s in seq]
Scored(seq) == [k \in 1..Len(seq) |-> [s |-> seq[k], score |-> ScoreOf(seq[k])]]


\* InsertByScore of a sort that is not stable: t goes before its equals
InsertByScore_Unstable(sorted, t) ==
    LET k == Cardinality({j \in 1..Len(sorted) : sorted[j].score > t.score})
    IN  SubSeq(sorted, 1, k) \o <<t>> \o SubSeq(sorted, k + 1, Len(sorted))

\* one insertion of scored.sort(key=lambda t: t[1], reverse=True), which is stable:
\* t goes after every element whose score is at least its own
InsertByScore(sorted, t) ==
    LET k == Cardinality({j \in 1..Len(sorted) : sorted[j].score >= t.score})
    IN  SubSeq(sorted, 1, k) \o <<t>> \o SubSeq(sorted, k + 1, Len(sorted))

RECURSIVE SortByScore(_, _)
SortByScore(scored, n) ==
    IF n = 0 THEN <<>> ELSE InsertByScore(SortByScore(scored, n - 1), scored[n])

\* [s for s, _ in scored[:n]] after the sort
TopByScore(seq, n) ==
    LET sorted == SortByScore(Scored(seq), Len(seq))
    IN  [k \in 1..(IF Len(seq) < n THEN Len(seq) ELSE n) |-> sorted[k].s]

Take(seq, n) == SubSeq(seq, 1, IF Len(seq) < n THEN Len(seq) ELSE n)

_pick_top_sentences(all_text, max_sentences) ==
    TopByScore(UniqueFrom(_split_sentences(all_text), 1, {}), max_sentences)

\* chunks.append("\n\n".join(pages[i : i + size])) for i in range(0, len(pages), size)
ChunksOf(pages) ==
    [c \in 1..((Len(pages) + ChunkSize - 1) \div ChunkSize) |->
        JoinWith(SubSeq(pages, ChunkSize * (c - 1) + 1,
                        IF ChunkSize * c < Len(pages) THEN ChunkSize * c ELSE Len(pages)),
                 "\n\n")]

\* all_points.extend(...) over the chunks
RECURSIVE Flatten(_)
Flatten(lists) == IF Len(lists) = 0 THEN <<>> ELSE Head(lists) \o Flatten(Tail(lists))


\* summarize_text without the sort of the pooled candidates
summarize_text_Unsorted(pages) ==
    IF Len(pages) = 0
    THEN [summary |-> "", key_points |-> <<>>, chunks |-> <<>>, picks |-> <<>>]
    ELSE LET chunks == ChunksOf(pages)
             picks == [c \in 1..Len(chunks) |-> _pick_top_sentences(chunks[c], ChunkTop)]
             combined_first == JoinWith(Take(chunks, SummaryChunks), "\n\n")
         IN  [summary |-> JoinWith(_pick_top_sentences(combined_first, SummaryTop), " "),
              key_points |-> Take(Flatten(picks), MaxKeyPoints),
              chunks |-> chunks,
              picks |-> picks]

\* summarize_text whose summary reads the first chunk only
summarize_text_FirstChunk(pages) ==
    IF Len(pages) = 0
    THEN [summary |-> "", key_points |-> <<>>, chunks |-> <<>>, picks |-> <<>>]
    ELSE LET chunks == ChunksOf(pages)
             picks == [c \in 1..Len(chunks) |-> _pick_top_sentences(chunks[c], ChunkTop)]
             all_points == Flatten(picks)
         IN  [summary |-> JoinWith(_pick_top_sentences(chunks[1], SummaryTop), " "),
              key_points |-> TopByScore(all_points, MaxKeyPoints),
              chunks |-> chunks,
              picks |-> picks]

\* the value summarize_text returns, with its locals chunks and the per-chunk picks
summarize_text(pages) ==
    IF Len(pages) = 0
    THEN [summary |-> "", key_points |-> <<>>, chunks |-> <<>>, picks |-> <<>>]
    ELSE LET chunks == ChunksOf(pages)
             picks == [c \in 1..Len(chunks) |-> _pick_top_sentences(chunks[c], ChunkTop)]
             all_points == Flatten(picks)
             combined_first == JoinWith(Take(chunks, SummaryChunks), "\n\n")
         IN  [summary |-> JoinWith(_pick_top_sentences(combined_first, SummaryTop), " "),
              key_points |-> TopByScore(all_points, MaxKeyPoints),
              chunks |-> chunks,
              picks |-> picks]

----------------------------------------------------------------------------
(* State.                                                                  *)

VARIABLES
    fitz,           \* module global: PyMuPDF was imported (lines 11-14)
    extract_pages,  \* module global: pdfminer.six was imported (lines 16-22)
    pytesseract,    \* module globals pytesseract and Image were imported (lines 24-29)
    files,          \* the input files: what each path holds
    dirs,           \* the directories that exist under the working directory
    outputs,        \* the report files under outputs/summaries
    pc,             \* where each call of run() stands
    pdf_path,       \* the argument of each call
    pages,          \* extract_pages_text's local pages, then run()'s
    acc,            \* the list a backend function is building
    idx,            \* the page the backend loop is at
    origin,         \* the backend that produced each element of pages
    events,         \* what each call has asked of the backends so far
    err,            \* the exception a call ended with
    res,            \* the value of summarize_text, with its locals
    writes,         \* how many changes to the filesystem each call has made
    strip_call      \* one call of _strip_headers_footers: its text and result

vars == <<fitz, extract_pages, pytesseract, files, dirs, outputs, pc, pdf_path, pages, acc,
          idx, origin, events, err, res, writes, strip_call>>

globals == <<fitz, extract_pages, pytesseract, files>>

Runs == {1, 2}

OCR_MIN_CHARS == 20

\* os.path.basename(p)
Basename(p) ==
    LET slashes == {i \in 1..Len(p) : Ch(p, i) = "/"}
    IN  IF slashes = {} THEN p ELSE SubSeq(p, SetMax(slashes) + 1, Len(p))

\* os.path.splitext(name)[0]: up to the last dot, unless only dots precede it
SplitextRoot(name) ==
    LET dots == {i \in 1..Len(name) : Ch(name, i) = "."}
    IN  IF dots = {} \/ \A i \in 1..(SetMax(dots) - 1) : Ch(name, i) = "."
        THEN name
        ELSE SubSeq(name, 1, SetMax(dots) - 1)

Stem(p) == SplitextRoot(Basename(p))

TxtPath(p) == "outputs/summaries/" \o Stem(p) \o ".summary.txt"

JsonPath(p) == "outputs/summaries/" \o Stem(p) \o ".summary.json"

RECURSIVE Repeat(_, _)
Repeat(s, n) == IF n = 0 THEN "" ELSE s \o Repeat(s, n - 1)

\* the lines run() writes to the text report; the title's dash is written "-"
TxtReport(stem, r) ==
    <<stem \o " - Summary", Repeat("=", Len(stem) + Len(" - Summary")), "",
      "Summary", "-------", Strip(r.summary), "",
      "Key Points", "----------">>
    \o [i \in 1..Len(r.key_points) |-> ToString(i) \o ". " \o r.key_points[i]]
    \o <<"">>

\* the object run() dumps to the JSON report
JsonReport(stem, r) ==
    <<[company |-> stem, summary |-> r.summary, key_points |-> r.key_points]>>

\* a buffered file opened with "w" and closed: the data lands at offset 0 of
\* whatever the file holds by then
Overlay(old, data) == data \o SubSeq(old, Len(data) + 1, Len(old))

Event(e, i) == [ev |-> e, page |-> i]

Happened(r, e) == \E k \in 1..Len(events[r]) : events[r][k].ev = e

HappenedAt(r, e, i) == \E k \in 1..Len(events[r]) : events[r][k] = Event(e, i)

Doc(r) == files[pdf_path[r]]

----------------------------------------------------------------------------
(* extract_pages_text, step by step.                                       *)


\* E_AssertIsFile with the assert statement compiled away
E_AssertIsFile_Skipped(r) ==
    /\ pc[r] = "extract"
    /\ pc' = [pc EXCEPT ![r] = IF fitz THEN "pymupdf_open" ELSE "layout_check"]
    /\ pages' = [pages EXCEPT ![r] = <<>>]
    /\ UNCHANGED <<globals, dirs, outputs, pdf_path, acc, idx, origin, events, err, res, writes,
                   strip_call>>

\* assert os.path.isfile(pdf_path); pages = []; if fitz is not None
E_AssertIsFile(r) ==
    /\ pc[r] = "extract"
    /\ IF ~Doc(r).isfile
       THEN /\ pc' = [pc EXCEPT ![r] = "failed"]
            /\ err' = [err EXCEPT ![r] = "AssertionError"]
            /\ UNCHANGED pages
       ELSE /\ pc' = [pc EXCEPT ![r] = IF fitz THEN "pymupdf_open" ELSE "layout_check"]
            /\ pages' = [pages EXCEPT ![r] = <<>>]
            /\ UNCHANGED err
    /\ UNCHANGED <<globals, dirs, outputs, pdf_path, acc, idx, origin, events, res, writes,
                   strip_call>>

\* _extract_text_pymupdf: doc = fitz.open(pdf_path); pages = []
E_PymupdfOpen(r) ==
    /\ pc[r] = "pymupdf_open"
    /\ IF ~Doc(r).isfile \/ Doc(r).open_raises
       THEN /\ events' = [events EXCEPT ![r] = @ \o <<Event("native_start", 0), Event("native_raise", 0)>>]
            /\ pages' = [pages EXCEPT ![r] = <<>>]
            /\ pc' = [pc EXCEPT ![r] = "layout_check"]
            /\ UNCHANGED <<acc, idx>>
       ELSE /\ events' = [events EXCEPT ![r] = Append(@, Event("native_start", 0))]
            /\ acc' = [acc EXCEPT ![r] = <<>>]
            /\ idx' = [idx EXCEPT ![r] = 1]
            /\ pc' = [pc EXCEPT ![r] = "pymupdf_page"]
            /\ UNCHANGED pages
    /\ UNCHANGED <<globals, dirs, outputs, pdf_path, origin, err, res, writes, strip_call>>

\* if (not raw or len(raw.strip()) < 20) and pytesseract is not None and Image is not None
OcrWanted(raw) == (raw = "" \/ Len(Strip(raw)) < OCR_MIN_CHARS) /\ pytesseract

\* raw = (raw or "").strip() + ("\n" + ocr_text.strip() if ocr_text else "")
WithOcr(raw, ocr_text) == Strip(raw) \o (IF ocr_text # "" THEN "\n" \o Strip(ocr_text) ELSE "")

\* one page of the loop of _extract_text_pymupdf: the text the page ends with
PymupdfPageText(p) ==
    IF OcrWanted(p.text) /\ ~p.ocr_raises THEN WithOcr(p.text, p.ocr_text) ELSE p.text

PymupdfPageEvents(p, i) ==
    IF ~OcrWanted(p.text) THEN <<>>
    ELSE IF p.ocr_raises THEN <<Event("ocr_try", i), Event("ocr_fail", i)>>
    ELSE <<Event("ocr_try", i), Event("ocr_ok", i)>>


\* E_PymupdfPage whose except clause keeps the pages read so far
E_PymupdfPage_KeepsPartial(r) ==
    /\ pc[r] = "pymupdf_page"
    /\ LET i == idx[r]
       IN  IF i > Len(Doc(r).native) \/ Doc(r).native[i].raises
           THEN /\ pages' = [pages EXCEPT ![r] = acc[r]]
                /\ origin' = [origin EXCEPT ![r] = [k \in 1..Len(acc[r]) |-> "native"]]
                /\ events' = [events EXCEPT ![r] =
                                 Append(@, IF i > Len(Doc(r).native) THEN Event("native_return", 0)
                                           ELSE Event("native_raise", i))]
                /\ pc' = [pc EXCEPT ![r] = "layout_check"]
                /\ UNCHANGED <<acc, idx>>
           ELSE /\ acc' = [acc EXCEPT ![r] = Append(@, CleanPage(PymupdfPageText(Doc(r).native[i])))]
                /\ events' = [events EXCEPT ![r] = @ \o PymupdfPageEvents(Doc(r).native[i], i)]
                /\ idx' = [idx EXCEPT ![r] = i + 1]
                /\ UNCHANGED <<pages, origin, pc>>
    /\ UNCHANGED <<globals, dirs, outputs, pdf_path, err, res, writes, strip_call>>

\* E_PymupdfPage without the try around rendering and recognition
E_PymupdfPage_OcrPropagates(r) ==
    /\ pc[r] = "pymupdf_page"
    /\ LET i == idx[r]
       IN  IF i > Len(Doc(r).native)
           THEN /\ pages' = [pages EXCEPT ![r] = acc[r]]
                /\ origin' = [origin EXCEPT ![r] = [k \in 1..Len(acc[r]) |-> "native"]]
                /\ events' = [events EXCEPT ![r] = Append(@, Event("native_return", 0))]
                /\ pc' = [pc EXCEPT ![r] = "layout_check"]
                /\ UNCHANGED <<acc, idx>>
           ELSE IF Doc(r).native[i].raises
                   \/ (OcrWanted(Doc(r).native[i].text) /\ Doc(r).native[i].ocr_raises)
           THEN /\ pages' = [pages EXCEPT ![r] = <<>>]
                /\ events' = [events EXCEPT ![r] =
                                 @ \o (IF Doc(r).native[i].raises THEN <<>>
                                       ELSE PymupdfPageEvents(Doc(r).native[i], i))
                                   \o <<Event("native_raise", i)>>]
                /\ acc' = [acc EXCEPT ![r] = <<>>]
                /\ pc' = [pc EXCEPT ![r] = "layout_check"]
                /\ UNCHANGED <<idx, origin>>
           ELSE /\ acc' = [acc EXCEPT ![r] = Append(@, CleanPage(PymupdfPageText(Doc(r).native[i])))]
                /\ events' = [events EXCEPT ![r] = @ \o PymupdfPageEvents(Doc(r).native[i], i)]
                /\ idx' = [idx EXCEPT ![r] = i + 1]
                /\ UNCHANGED <<pages, origin, pc>>
    /\ UNCHANGED <<globals, dirs, outputs, pdf_path, err, res, writes, strip_call>>

\* for page in doc: ...; return pages -- and the except clause of the caller
E_PymupdfPage(r) ==
    /\ pc[r] = "pymupdf_page"
    /\ LET i == idx[r]
       IN  IF i > Len(Doc(r).native)
           THEN /\ pages' = [pages EXCEPT ![r] = acc[r]]
                /\ origin' = [origin EXCEPT ![r] = [k \in 1..Len(acc[r]) |-> "native"]]
                /\ events' = [events EXCEPT ![r] = Append(@, Event("native_return", 0))]
                /\ pc' = [pc EXCEPT ![r] = "layout_check"]
                /\ UNCHANGED <<acc, idx>>
           ELSE IF Doc(r).native[i].raises
           THEN /\ pages' = [pages EXCEPT ![r] = <<>>]
                /\ events' = [events EXCEPT ![r] = Append(@, Event("native_raise", i))]
                /\ acc' = [acc EXCEPT ![r] = <<>>]
                /\ pc' = [pc EXCEPT ![r] = "layout_check"]
                /\ UNCHANGED <<idx, origin>>
           ELSE /\ acc' = [acc EXCEPT ![r] = Append(@, CleanPage(PymupdfPageText(Doc(r).native[i])))]
                /\ events' = [events EXCEPT ![r] = @ \o PymupdfPageEvents(Doc(r).native[i], i)]
                /\ idx' = [idx EXCEPT ![r] = i + 1]
                /\ UNCHANGED <<pages, origin, pc>>
    /\ UNCHANGED <<globals, dirs, outputs, pdf_path, err, res, writes, strip_call>>

\* if not pages and extract_pages is not None
LayoutWanted(r) == pages[r] = <<>> /\ extract_pages

E_LayoutCheck(r) ==
    /\ pc[r] = "layout_check"
    /\ IF LayoutWanted(r)
       THEN /\ events' = [events EXCEPT ![r] = Append(@, Event("layout_start", 0))]
            /\ acc' = [acc EXCEPT ![r] = <<>>]
            /\ idx' = [idx EXCEPT ![r] = 1]
            /\ pc' = [pc EXCEPT ![r] = "pdfminer_page"]
       ELSE /\ pc' = [pc EXCEPT ![r] = "final_check"]
            /\ UNCHANGED <<events, acc, idx>>
    /\ UNCHANGED <<globals, dirs, outputs, pdf_path, pages, origin, err, res, writes, strip_call>>

\* _extract_text_pdfminer: for layout in extract_pages(pdf_path): ...; return pages
E_PdfminerPage(r) ==
    /\ pc[r] = "pdfminer_page"
    /\ LET i == idx[r]
       IN  IF ~Doc(r).isfile \/ (i <= Len(Doc(r).layout) /\ Doc(r).layout[i].raises)
           THEN /\ pages' = [pages EXCEPT ![r] = <<>>]
                /\ events' = [events EXCEPT ![r] = Append(@, Event("layout_raise", i))]
                /\ acc' = [acc EXCEPT ![r] = <<>>]
                /\ pc' = [pc EXCEPT ![r] = "final_check"]
                /\ UNCHANGED <<idx, origin>>
           ELSE IF i > Len(Doc(r).layout)
           THEN /\ pages' = [pages EXCEPT ![r] = acc[r]]
                /\ origin' = [origin EXCEPT ![r] = [k \in 1..Len(acc[r]) |-> "layout"]]
                /\ events' = [events EXCEPT ![r] = Append(@, Event("layout_return", 0))]
                /\ pc' = [pc EXCEPT ![r] = "final_check"]
                /\ UNCHANGED <<acc, idx>>
           ELSE /\ acc' = [acc EXCEPT ![r] = Append(@, CleanPage(Doc(r).layout[i].text))]
                /\ idx' = [idx EXCEPT ![r] = i + 1]
                /\ UNCHANGED <<pages, origin, events, pc>>
    /\ UNCHANGED <<globals, dirs, outputs, pdf_path, err, res, writes, strip_call>>


\* E_FinalCheck without the raise: whatever pages holds is returned
E_FinalCheck_NeverRaises(r) ==
    /\ pc[r] = "final_check"
    /\ pc' = [pc EXCEPT ![r] = "summarize"]
    /\ UNCHANGED <<globals, dirs, outputs, pdf_path, pages, acc, idx, origin, events, err, res,
                   writes, strip_call>>

\* if not pages: raise RuntimeError(...); return pages
E_FinalCheck(r) ==
    /\ pc[r] = "final_check"
    /\ IF pages[r] = <<>>
       THEN /\ pc' = [pc EXCEPT ![r] = "failed"]
            /\ err' = [err EXCEPT ![r] = "RuntimeError"]
       ELSE /\ pc' = [pc EXCEPT ![r] = "summarize"]
            /\ UNCHANGED err
    /\ UNCHANGED <<globals, dirs, outputs, pdf_path, pages, acc, idx, origin, events, res,
                   writes, strip_call>>

Extract(r) ==
    \/ E_AssertIsFile(r)
    \/ E_PymupdfOpen(r)
    \/ E_PymupdfPage(r)
    \/ E_LayoutCheck(r)
    \/ E_PdfminerPage(r)
    \/ E_FinalCheck(r)

----------------------------------------------------------------------------
(* run(), after extract_pages_text has returned.                           *)

\* res = summarize_text(pages)
R_Summarize(r) ==
    /\ pc[r] = "summarize"
    /\ res' = [res EXCEPT ![r] = summarize_text(pages[r])]
    /\ pc' = [pc EXCEPT ![r] = "makedirs"]
    /\ UNCHANGED <<globals, dirs, outputs, pdf_path, pages, acc, idx, origin, events, err,
                   writes, strip_call>>

\* os.makedirs(os.path.join("outputs", "summaries"), exist_ok=True)
R_Makedirs(r) ==
    /\ pc[r] = "makedirs"
    /\ dirs' = dirs \cup {"outputs", "outputs/summaries"}
    /\ writes' = [writes EXCEPT ![r] = @ + (IF "outputs/summaries" \in dirs THEN 0 ELSE 1)]
    /\ pc' = [pc EXCEPT ![r] = "open_txt"]
    /\ UNCHANGED <<globals, outputs, pdf_path, pages, acc, idx, origin, events, err, res,
                   strip_call>>

\* open(path, "w"): the file is created, or cut to nothing
OpenForWrite(r, path, next) ==
    /\ outputs' = [outputs EXCEPT ![path] = [exists |-> TRUE, data |-> <<>>]]
    /\ writes' = [writes EXCEPT ![r] = @ + 1]
    /\ pc' = [pc EXCEPT ![r] = next]
    /\ UNCHANGED <<globals, dirs, pdf_path, pages, acc, idx, origin, events, err, res,
                   strip_call>>

\* the end of the with block: the buffered data is written and the file closed
CloseWritten(r, path, data, next) ==
    /\ outputs' = [outputs EXCEPT ![path] = [exists |-> TRUE, data |-> Overlay(@.data, data)]]
    /\ writes' = [writes EXCEPT ![r] = @ + 1]
    /\ pc' = [pc EXCEPT ![r] = next]
    /\ UNCHANGED <<globals, dirs, pdf_path, pages, acc, idx, origin, events, err, res,
                   strip_call>>

R_OpenTxt(r) == pc[r] = "open_txt" /\ OpenForWrite(r, TxtPath(pdf_path[r]), "write_txt")

R_WriteTxt(r) ==
    /\ pc[r] = "write_txt"
    /\ CloseWritten(r, TxtPath(pdf_path[r]), TxtReport(Stem(pdf_path[r]), res[r]), "open_json")

R_OpenJson(r) == pc[r] = "open_json" /\ OpenForWrite(r, JsonPath(pdf_path[r]), "write_json")

\* json.dump(...), the end of the with block, and the return
R_WriteJson(r) ==
    /\ pc[r] = "write_json"
    /\ CloseWritten(r, JsonPath(pdf_path[r]), JsonReport(Stem(pdf_path[r]), res[r]), "done")

Report(r) ==
    \/ R_Summarize(r)
    \/ R_Makedirs(r)
    \/ R_OpenTxt(r)
    \/ R_WriteTxt(r)
    \/ R_OpenJson(r)
    \/ R_WriteJson(r)

\* one call of _strip_headers_footers
StripHeadersFooters ==
    /\ ~strip_call.done
    /\ strip_call' = [strip_call EXCEPT !.done = TRUE, !.result = _strip_headers_footers(strip_call.text)]
    /\ UNCHANGED <<globals, dirs, outputs, pc, pdf_path, pages, acc, idx, origin, events, err,
                   res, writes>>

----------------------------------------------------------------------------
(* Inputs.                                                                 *)

SeqsUpTo(S, n) == UNION {[1..k -> S] : k \in 0..n}

Idle == [text |-> "", done |-> TRUE, result |-> ""]

NoFile == [isfile |-> FALSE]

Pdf(open_raises, native, layout) ==
    [isfile |-> TRUE, open_raises |-> open_raises, native |-> native, layout |-> layout]

\* what page.get_text, and the rendering and recognition of the page, do
NativePage(text, ocr_text) == [raises |-> FALSE, text |-> text, ocr_raises |-> FALSE, ocr_text |-> ocr_text]

NativePageOcrRaises(text) == [raises |-> FALSE, text |-> text, ocr_raises |-> TRUE, ocr_text |-> ""]

NativePageRaises == [raises |-> TRUE, text |-> "", ocr_raises |-> FALSE, ocr_text |-> ""]

LayoutPage(text) == [raises |-> FALSE, text |-> text]

LayoutPageRaises == [raises |-> TRUE, text |-> ""]

\* the input files of the concurrent calls: two reports of the same file name in
\* two directories, a scanned page, and a path that names nothing
InputFiles ==
    [p \in {"in/report.pdf", "archive/report.pdf", "in/scan.pdf", "in/missing.pdf"} |->
        CASE p = "in/report.pdf" ->
                Pdf(FALSE,
                    <<NativePage(LineRevenue \o " " \o LineRisk, LineScanned)>>,
                    <<LayoutPage(LineRevenue)>>)
          [] p = "archive/report.pdf" ->
                Pdf(TRUE, <<>>, <<LayoutPage(LineProfit), LayoutPage(LineOutlook)>>)
          [] p = "in/scan.pdf" ->
                Pdf(FALSE, <<NativePage("", LineScanned)>>, <<>>)
          [] OTHER -> NoFile]

Paths == DOMAIN InputFiles

OutputPaths == {TxtPath(p) : p \in Paths} \cup {JsonPath(p) : p \in Paths}

\* the documents extraction alone is run on
MaxNativePages == 2

MaxLayoutPages == 2

NativePageOptions ==
    {NativePageRaises,
     NativePage(LineRevenue, LineScanned),
     NativePage("", LineScanned), NativePage("", ""), NativePageOcrRaises(""),
     NativePage(ShortText, LineScanned), NativePageOcrRaises(ShortText)}

LayoutPageOptions == {LayoutPageRaises, LayoutPage(LineProfit)}

Documents ==
    {Pdf(FALSE, n, l) : n \in SeqsUpTo(NativePageOptions, MaxNativePages),
                        l \in SeqsUpTo(LayoutPageOptions, MaxLayoutPages)}
    \cup {Pdf(TRUE, <<>>, l) : l \in SeqsUpTo(LayoutPageOptions, MaxLayoutPages)}

\* the page lists the summarizer alone is run on
MaxPages == 4

\* the pages _strip_headers_footers alone is run on: four first lines, four last
\* lines, and body lines between them
MaxBodyLines == 1

LineCatalogue == {"CONFIDENTIAL", "12", LineRisk}

StripInputs ==
    {JoinWith(top \o [k \in 1..m |-> LineRevenue] \o bottom, "\n") :
        top \in [1..HEADER_FOOTER_MAX_LINES -> LineCatalogue],
        bottom \in [1..HEADER_FOOTER_MAX_LINES -> LineCatalogue],
        m \in 0..MaxBodyLines}

----------------------------------------------------------------------------
(* Specifications.                                                         *)

InitRuns(start) ==
    /\ dirs = {}
    /\ outputs = [o \in OutputPaths |-> [exists |-> FALSE, data |-> <<>>]]
    /\ pc = start
    /\ acc = [r \in Runs |-> <<>>]
    /\ idx = [r \in Runs |-> 0]
    /\ origin = [r \in Runs |-> <<>>]
    /\ events = [r \in Runs |-> <<>>]
    /\ err = [r \in Runs |-> "none"]
    /\ res = [r \in Runs |-> [summary |-> "", key_points |-> <<>>, chunks |-> <<>>, picks |-> <<>>]]
    /\ writes = [r \in Runs |-> 0]

\* run() called concurrently, once per element of Runs
Init ==
    /\ fitz \in BOOLEAN /\ extract_pages \in BOOLEAN /\ pytesseract \in BOOLEAN
    /\ files = InputFiles
    /\ pdf_path \in [Runs -> Paths]
    /\ pages = [r \in Runs |-> <<>>]
    /\ strip_call = Idle
    /\ InitRuns([r \in Runs |-> "extract"])

Next == \E r \in Runs : Extract(r) \/ Report(r)

Spec == Init /\ [][Next]_vars

\* extract_pages_text called once, on any document
InitExtract ==
    /\ fitz \in BOOLEAN /\ extract_pages \in BOOLEAN /\ pytesseract \in BOOLEAN
    /\ \E d \in Documents : files = [p \in Paths |-> IF p = "in/report.pdf" THEN d ELSE NoFile]
    /\ pdf_path = [r \in Runs |-> "in/report.pdf"]
    /\ pages = [r \in Runs |-> <<>>]
    /\ strip_call = Idle
    /\ InitRuns([r \in Runs |-> IF r = 1 THEN "extract" ELSE "off"])

NextExtract == Extract(1)

SpecExtract == InitExtract /\ [][NextExtract]_vars

\* summarize_text called once, on any list of catalogue pages
InitSummarize ==
    /\ fitz = TRUE /\ extract_pages = TRUE /\ pytesseract = TRUE
    /\ files = InputFiles
    /\ pdf_path = [r \in Runs |-> "in/report.pdf"]
    /\ \E ps \in SeqsUpTo(PageCatalogue, MaxPages) : pages = [r \in Runs |-> IF r = 1 THEN ps ELSE <<>>]
    /\ strip_call = Idle
    /\ InitRuns([r \in Runs |-> IF r = 1 THEN "summarize" ELSE "off"])

NextSummarize == R_Summarize(1)

SpecSummarize == InitSummarize /\ [][NextSummarize]_vars

\* _strip_headers_footers called once, on any page of StripInputs
InitStrip ==
    /\ fitz = TRUE /\ extract_pages = TRUE /\ pytesseract = TRUE
    /\ files = InputFiles
    /\ pdf_path = [r \in Runs |-> "in/report.pdf"]
    /\ pages = [r \in Runs |-> <<>>]
    /\ \E text \in StripInputs : strip_call = [text |-> text, done |-> FALSE, result |-> ""]
    /\ InitRuns([r \in Runs |-> "off"])

NextStrip == StripHeadersFooters

SpecStrip == InitStrip /\ [][NextStrip]_vars

----------------------------------------------------------------------------
(* Properties.                                                             *)

\* what the claims call NotFoundError and ExtractionFailedError
NotFoundError == "AssertionError"

ExtractionFailedError == "RuntimeError"

Returned(r) == pc[r] \in {"summarize", "makedirs", "open_txt", "write_txt", "open_json", "write_json", "done"}

\* the native backend, left alone, gives at least one page
NativeYields(d) ==
    d.isfile /\ ~d.open_raises /\ Len(d.native) >= 1 /\ \A i \in 1..Len(d.native) : ~d.native[i].raises

\* the layout backend, left alone, gives at least one page
LayoutYields(d) ==
    d.isfile /\ Len(d.layout) >= 1 /\ \A i \in 1..Len(d.layout) : ~d.layout[i].raises

SomeStrategyYields(r) ==
    (fitz /\ NativeYields(Doc(r))) \/ (extract_pages /\ LayoutYields(Doc(r)))

\* C1: on an existing file, extraction fails with ExtractionFailedError exactly
\* when no available text-bearing strategy (native, layout) yields a page; in
\* every other case it returns a non-empty page list and raises nothing.
C1_FailsIffNoStrategyYields ==
    \A r \in Runs : Doc(r).isfile =>
        /\ pc[r] = "failed" => err[r] = ExtractionFailedError /\ ~SomeStrategyYields(r)
        /\ Returned(r) => err[r] = "none" /\ pages[r] # <<>> /\ SomeStrategyYields(r)

\* C1 witness: both backends were available, both raised, and extraction failed
C1_Witness ==
    /\ fitz /\ extract_pages
    /\ pc[1] = "failed" /\ err[1] = ExtractionFailedError
    /\ Happened(1, "native_raise") /\ Happened(1, "layout_raise")

NativeFirst(r) == fitz /\ events[r] # <<>> => events[r][1] = Event("native_start", 0)

OneBackend(r) == \A i, j \in 1..Len(origin[r]) : origin[r][i] = origin[r][j]

RaiseDiscardsNative(r) ==
    Happened(r, "native_raise") /\ Returned(r) =>
        Len(origin[r]) = Len(pages[r]) /\ \A i \in 1..Len(origin[r]) : origin[r][i] = "layout"

NoOcrOnLayoutTier(r) ==
    \A k, m \in 1..Len(events[r]) :
        events[r][k].ev = "layout_start" /\ m > k => events[r][m].ev \notin {"ocr_try", "ocr_ok", "ocr_fail"}

NativeReturnedNothing(r) == Happened(r, "native_return") /\ Len(Doc(r).native) = 0

\* C2 as stated: native is attempted before layout; layout is invoked only when
\* native is unavailable or raised; a raise part-way discards the native pages, so
\* the result comes from one backend; no optical salvage on the layout tier.
C2_LayoutOnlyAfterRaise ==
    \A r \in Runs :
        /\ NativeFirst(r)
        /\ Happened(r, "layout_start") => ~fitz \/ Happened(r, "native_raise")
        /\ RaiseDiscardsNative(r)
        /\ OneBackend(r)
        /\ NoOcrOnLayoutTier(r)

\* C2 amended: as C2, but layout is also invoked when the native backend
\* returned without error and gave zero pages.
C2_LayoutAfterRaiseOrNoPages ==
    \A r \in Runs :
        /\ NativeFirst(r)
        /\ Happened(r, "layout_start") =>
               ~fitz \/ Happened(r, "native_raise") \/ NativeReturnedNothing(r)
        /\ RaiseDiscardsNative(r)
        /\ OneBackend(r)
        /\ NoOcrOnLayoutTier(r)

\* C2 witness: native raised on its second page, after an optical salvage on the
\* first, and the pages returned are the layout backend's
C2_Witness ==
    /\ HappenedAt(1, "native_raise", 2) /\ HappenedAt(1, "ocr_ok", 1)
    /\ Happened(1, "layout_return")
    /\ pc[1] = "summarize" /\ Len(pages[1]) = 2

\* C3: a path that names no regular file fails with NotFoundError before any
\* backend is invoked, and the call makes no change to the filesystem.
C3_MissingFileFailsFirst ==
    \A r \in Runs : ~Doc(r).isfile =>
        /\ pc[r] \in {"extract", "failed"}
        /\ pc[r] = "failed" => err[r] = NotFoundError
        /\ events[r] = <<>>
        /\ writes[r] = 0

\* C3 witness: a call on the missing path has failed while the other call, on a
\* real document, has written its reports
C3_Witness ==
    \E r, q \in Runs :
        /\ ~Doc(r).isfile /\ pc[r] = "failed" /\ err[r] = NotFoundError
        /\ pc[q] = "done" /\ writes[q] > 0

KeyPoints(r) == res[r].key_points

\* C4: no two key points share a normalized deduplication key.
C4_KeyPointsHaveDistinctKeys ==
    \A r \in Runs : pc[r] = "makedirs" =>
        \A i, j \in 1..Len(KeyPoints(r)) :
            i # j => DedupKey(KeyPoints(r)[i]) # DedupKey(KeyPoints(r)[j])

\* C5: key_points has at most 12 entries, each scoring at least as much as the
\* next, and each is one of the at most 7 sentences kept from some chunk.
C5_KeyPointsCappedSortedFromChunks ==
    \A r \in Runs : pc[r] = "makedirs" =>
        /\ Len(KeyPoints(r)) <= 12
        /\ \A i \in 1..(Len(KeyPoints(r)) - 1) :
               ScoreOf(KeyPoints(r)[i]) >= ScoreOf(KeyPoints(r)[i + 1])
        /\ \A c \in 1..Len(res[r].picks) : Len(res[r].picks[c]) <= 7
        /\ \A i \in 1..Len(KeyPoints(r)) :
               \E c \in 1..Len(res[r].picks) : KeyPoints(r)[i] \in Range(res[r].picks[c])

\* C5 witness: the chunks kept 14 sentences between them, of unequal scores, and
\* 12 were returned
C5_Witness ==
    /\ pc[1] = "makedirs"
    /\ Len(Flatten(res[1].picks)) > 12
    /\ Len(KeyPoints(1)) = 12
    /\ ScoreOf(KeyPoints(1)[1]) > ScoreOf(KeyPoints(1)[12])

HasCandidate(ps) ==
    LET cands == _split_sentences(JoinWith(Take(ps, 9), "\n\n"))
    IN  \E k \in 1..Len(cands) : DedupKey(cands[k]) # ""

Boilerplate(ln) == is_header_footer_line(ln) \/ Len(ln) <= 2

StripLines == SplitOn(strip_call.text, "\n")

StripResultLines == SplitOn(strip_call.result, "\n")

\* more than 8 lines, the first "CONFIDENTIAL", the last a page number
ConfidentialPage ==
    /\ Len(StripLines) > 8
    /\ StripLines[1] = "CONFIDENTIAL"
    /\ IsPageNumberLine(StripLines[Len(StripLines)])

\* C7 as stated: with ordinary lines between the first and the last, the
\* result has lost both the first and the last line.
C7_FirstAndLastLineRemoved ==
    ( /\ strip_call.done
      /\ ConfidentialPage
      /\ \A k \in 2..(Len(StripLines) - 1) : ~Boilerplate(StripLines[k]) )
    => /\ StripResultLines[1] # "CONFIDENTIAL"
       /\ ~IsPageNumberLine(StripResultLines[Len(StripResultLines)])

\* C7 amended: when each of the first four and each of the last four lines is
\* boilerplate, and the lines between them are ordinary, the result is the
\* lines between them, joined and trimmed: the first and the last line are gone.
C7_BoilerplateBlocksRemoved ==
    ( /\ strip_call.done
      /\ ConfidentialPage
      /\ \A k \in 1..4 : Boilerplate(StripLines[k])
      /\ \A k \in (Len(StripLines) - 3)..Len(StripLines) : Boilerplate(StripLines[k])
      /\ \A k \in 5..(Len(StripLines) - 4) : ~Boilerplate(StripLines[k]) )
    => /\ strip_call.result = Strip(JoinWith(SubSeq(StripLines, 5, Len(StripLines) - 4), "\n"))
       /\ StripResultLines[1] # "CONFIDENTIAL"
       /\ ~IsPageNumberLine(StripResultLines[Len(StripResultLines)])

\* C7 witness: a page of nine lines, boilerplate but for the fifth, was stripped
C7_Witness ==
    /\ strip_call.done
    /\ ConfidentialPage
    /\ Len(StripLines) = 9
    /\ \A k \in {1, 2, 3, 4, 6, 7, 8, 9} : Boilerplate(StripLines[k])
    /\ ~Boilerplate(StripLines[5])
    /\ strip_call.result = StripLines[5]

\* C8: two calls on two different documents each leave behind the reports of
\* their own document, as they would alone, whatever the interleaving.
C8_ReportsOfEachRunIntact ==
    \A r, q \in Runs :
        ( /\ pdf_path[r] # pdf_path[q]
          /\ pc[r] = "done" /\ pc[q] \in {"done", "failed"} )
        => /\ outputs[TxtPath(pdf_path[r])].data = TxtReport(Stem(pdf_path[r]), res[r])
           /\ outputs[JsonPath(pdf_path[r])].data = JsonReport(Stem(pdf_path[r]), res[r])

NativeText(r, i) == Doc(r).native[i].text

\* the cleaned text of page i as the native backend holds or returned it
KeptPage(r, i) ==
    IF pc[r] = "pymupdf_page" THEN acc[r][i] ELSE pages[r][i]

\* C9: recognition is attempted on a page only when its native text is empty or
\* under 20 characters trimmed and the optical backend is available; when it
\* fails, the page keeps its (cleaned) native text, the loop goes on to the next
\* page, and neither the layout fallback nor ExtractionFailedError follows.
C9_OcrFailureStaysLocal ==
    \A r \in Runs :
        /\ \A k \in 1..Len(events[r]) :
               events[r][k].ev = "ocr_try" =>
                   /\ pytesseract
                   /\ \/ NativeText(r, events[r][k].page) = ""
                      \/ Len(Strip(NativeText(r, events[r][k].page))) < 20
        /\ \A k \in 1..Len(events[r]) :
               events[r][k].ev = "native_raise" =>
                   events[r][k].page = 0 \/ Doc(r).native[events[r][k].page].raises
        /\ \A i \in 1..Len(Doc(r).native) :
               HappenedAt(r, "ocr_fail", i) /\ ~Happened(r, "native_raise") =>
                   /\ KeptPage(r, i) = CleanPage(NativeText(r, i))
                   /\ pc[r] = "pymupdf_page" => idx[r] > i
                   /\ ~Happened(r, "layout_start")
                   /\ pc[r] # "failed"

\* C9 witness: recognition failed on the first page, whose text layer was
\* short, and extraction returned that page and the one after it
C9_Witness ==
    /\ HappenedAt(1, "ocr_fail", 1)
    /\ NativeText(1, 1) = ShortText
    /\ pc[1] = "summarize"
    /\ pages[1] = <<"Scan 7", LineRevenue>>

\* the candidates of chunk c, in the order of its text
Candidates(r, c) == _split_sentences(res[r].chunks[c])

\* the candidates left once those whose key was seen earlier are removed
FirstOfKey(cands) ==
    {k \in 1..Len(cands) : \A j \in 1..(k - 1) : DedupKey(cands[j]) # DedupKey(cands[k])}

\* picked is a selection from the candidates at the positions left: at most 7,
\* by score descending, equal scores in text order, and none left out in favour
\* of a later one of equal or lower score
SelectionOf(picked, cands, left) ==
    LET pos == [m \in 1..Len(picked) |->
                   IF \E k \in left : cands[k] = picked[m]
                   THEN CHOOSE k \in left : cands[k] = picked[m] ELSE 0]
    IN  /\ Len(picked) <= 7
        /\ \A m \in 1..Len(picked) : \E k \in left : cands[k] = picked[m]
        /\ \A m, n \in 1..Len(picked) : m < n =>
               /\ ScoreOf(picked[m]) >= ScoreOf(picked[n])
               /\ ScoreOf(picked[m]) = ScoreOf(picked[n]) => pos[m] < pos[n]
        /\ \A k \in left : (\A m \in 1..Len(picked) : picked[m] # cands[k]) =>
               \A m \in 1..Len(picked) :
                   ~(pos[m] > k /\ ScoreOf(picked[m]) <= ScoreOf(cands[k]))

\* C10 as stated: the candidates left are the first of each key.
C10_SelectionAmongFirstOfKey ==
    \A r \in Runs : pc[r] = "makedirs" =>
        \A c \in 1..Len(res[r].chunks) :
            SelectionOf(res[r].picks[c], Candidates(r, c), FirstOfKey(Candidates(r, c)))

\* C10 amended: the candidates left are the first of each key, without those
\* whose key is empty (no word character), which are removed as well.
C10_SelectionAmongFirstOfNonEmptyKey ==
    \A r \in Runs : pc[r] = "makedirs" =>
        \A c \in 1..Len(res[r].chunks) :
            SelectionOf(res[r].picks[c], Candidates(r, c),
                        {k \in FirstOfKey(Candidates(r, c)) : DedupKey(Candidates(r, c)[k]) # ""})

\* C10 witness: a chunk with a repeated key and more than 7 candidates left, of
\* which 7 were kept, two of them of equal score
C10_Witness ==
    /\ pc[1] = "makedirs"
    /\ \E c \in 1..Len(res[1].chunks) :
          /\ Cardinality(FirstOfKey(Candidates(1, c))) < Len(Candidates(1, c))
          /\ Cardinality({k \in FirstOfKey(Candidates(1, c)) : DedupKey(Candidates(1, c)[k]) # ""}) > 7
          /\ Len(res[1].picks[c]) = 7
          /\ \E m \in 1..6 : ScoreOf(res[1].picks[c][m]) = ScoreOf(res[1].picks[c][m + 1])

=============================================================================
